---- MODULE Spec2Model ----
(***************************************************************************)
(* A model of the MilliSuono graph engine: ms::GraphManager (node          *)
(* registry, execution-order list, connection list, per-node buffers) and  *)
(* the part of ms::Node that GraphManager drives (Node::prepare).          *)
(*                                                                         *)
(* Every public operation of GraphManager is one action; a call made by    *)
(* one caller at a time runs from its lock_guard to its return, so the     *)
(* action is the whole body of the function.  lastCall records the call    *)
(* that produced the current state together with its return value.         *)
(*                                                                         *)
(* Spec      one caller on a GraphManager                                  *)
(* FadeSpec  the fade-in interface of one Node                             *)
(* ParamSpec the parameter interface of one Node                           *)
(* ProcSpec  an application building a graph and running blocks            *)
(* ConcSpec  a control-plane thread and a processing thread                *)
(* ThreadSpec two threads, every function statement by statement          *)
(* LockSpec  two threads contending for graphMutex_, fair scheduling       *)
(***************************************************************************)
EXTENDS Integers, Sequences, FiniteSets, TLC

(***************************************************************************)
(* Bounds of the model.                                                    *)
(***************************************************************************)
\* connect is not offered once the connection list holds MaxConns entries
MaxConns == 2
\* createNode of a new id is not offered once the execution-order list
\* holds MaxOrdered entries
MaxOrdered == 2
\* applyFadeIn is called with blocks of 0..MaxFrames samples
MaxFrames == 3
\* applyFadeIn is not offered once it would have been handed more than
\* MaxSamples samples since the last prepare or resetFadeIn
MaxSamples == 6
\* setParams is called with vectors of at most MaxParams parameters
MaxParams == 2

(***************************************************************************)
(* Inputs.                                                                 *)
(***************************************************************************)
\* the strings callers pass as node ids
NodeIds == {"a", "b"}
\* the strings callers pass as port names: every node is addressed through
\* "out" and "in", node "b" also through "mod"
FromPorts == {"out"}
ToPorts(toId) == IF toId = "b" THEN {"in", "mod"} ELSE {"in"}
\* the (fromId, fromPort, toId, toPort) callers pass to connect and disconnect
ConnArgs ==
  {c \in NodeIds \X FromPorts \X NodeIds \X {"in", "mod"} : c[4] \in ToPorts(c[3])}
\* the (sampleRate, blockSize) pairs callers pass to prepare
PrepareArgs == {<<44100, 1>>, <<48000, 2>>}

\* The Node objects the caller has constructed (NodePtr values).  Each has
\* the immutable id given to its constructor and the output ports its
\* constructor declared.
Objs == {"n1", "n2"}
nullptr == "nullptr"
objId == [o \in Objs |-> IF o = "n1" THEN "a" ELSE "b"]
getOutputPorts ==
  [o \in Objs |-> IF o = "n1" THEN <<"Audio", "Control", "Audio">> ELSE <<"Event">>]

\* The names of the ports the constructors declared, in declaration order
\* (getOutputPorts holds the types of the same output ports), and the value
\* each node's process() writes to every sample of each of its Audio
\* outputs: n1 is a source writing 1 to "out" and 2 to "aux", n2 a sink.
outputPortNames == [o \in Objs |-> IF o = "n1" THEN <<"out", "cv", "aux">> ELSE <<"ev">>]
inputPortNames == [o \in Objs |-> IF o = "n1" THEN <<"in">> ELSE <<"in", "mod">>]
Emits == [o \in Objs |-> IF o = "n1" THEN <<1, 2>> ELSE <<>>]
\* the (id, node) pairs and the connections the application passes when it
\* builds the graph it then runs
BuildArgs == {<<"a", "n1">>, <<"b", "n2">>}
RouteArgs == {<<"a", "out", "b", "in">>, <<"a", "aux", "b", "in">>,
              <<"a", "out", "b", "mod">>}

\* the node whose fade-in and parameters are driven directly
FadeNode == "n1"
\* the durations (whole milliseconds) callers pass to setFadeInDuration
FadeDurations == {-3, 0, 1, 3}
\* the (sampleRate, blockSize) pairs callers pass to Node::prepare; at
\* 500 Hz a duration of 1 ms is less than one sample
NodePrepareArgs == {<<500, 1>>, <<1000, 2>>}

\* the parameter names callers pass, and the ControlValue variants (the
\* alternative held and its value) they pass: 0.0f, 0 and 1
ParamNames == {"gain", "freq"}
ControlValues == {[type |-> "float", v |-> 0], [type |-> "int", v |-> 0],
                  [type |-> "int", v |-> 1]}

(***************************************************************************)
(* Program constants.                                                      *)
(***************************************************************************)
DefaultSampleRate == 44100
DefaultBlockSize == 512
DefaultFadeInDurationMs == 50

VARIABLES
  nodes_,          \* registry: id -> NodePtr
  orderedNodes_,   \* execution-order list of NodePtr
  connections_,    \* list of Connection
  audioBuffers_,   \* id -> list of buffers (one per Audio output port)
  controlValues_,  \* id -> (port name -> ControlValue)
  eventBuffers_,   \* id -> (port name -> list of Event)
  sampleRate_,
  blockSize_,
  isPrepared_,
  nodeState,       \* the fields of each Node object
  lastCall,        \* the call that led to this state, and what it returned
  params_,         \* Node::params_ of the node whose parameters are set
  ramp,            \* history of the fade-in of the node under applyFadeIn
  pc,              \* where the control-plane thread stands inside clear()
  graphMutex_,     \* the thread that holds the std::mutex, or Free
  frames           \* per thread: the call in progress and its next statement

graph == <<nodes_, orderedNodes_, connections_, audioBuffers_, controlValues_,
           eventBuffers_, sampleRate_, blockSize_, isPrepared_>>
vars == <<nodes_, orderedNodes_, connections_, audioBuffers_, controlValues_,
          eventBuffers_, sampleRate_, blockSize_, isPrepared_, nodeState,
          params_, ramp, pc, graphMutex_, frames, lastCall>>
\* what no operation of GraphManager called by a single caller touches
nodeSide == <<params_, ramp, pc, graphMutex_, frames>>
\* the mutex and the threads' positions, in the specification that has them
threadSide == <<graphMutex_, frames>>

(***************************************************************************)
(* Maps (std::unordered_map) as functions on their key set.                *)
(***************************************************************************)
EmptyMap == [k \in {} |-> 0]
MapErase(m, key) == [k \in DOMAIN m \ {key} |-> m[k]]
MapPut(m, key, val) == [k \in DOMAIN m \cup {key} |-> IF k = key THEN val ELSE m[k]]

(***************************************************************************)
(* ms::Node                                                                *)
(***************************************************************************)
\* static_cast<int>((fadeInDurationMs_ / 1000.0f) * sampleRate_), for
\* durations that are whole milliseconds; the cast truncates towards zero
updateFadeInSamples(durationMs, sampleRate) ==
  IF durationMs >= 0
    THEN (durationMs * sampleRate) \div 1000
    ELSE 0 - (((0 - durationMs) * sampleRate) \div 1000)

\* A Node as its constructor and member initialisers leave it.
NewNode ==
  [sampleRate_ |-> DefaultSampleRate,
   blockSize_ |-> DefaultBlockSize,
   fadeInDurationMs_ |-> DefaultFadeInDurationMs,
   fadeInSamples_ |-> 0,
   currentFadeSample_ |-> 0,
   fadeInActive_ |-> FALSE,
   graphManager_ |-> nullptr]

\* node->setGraphManager(this)
setGraphManager(n) == [n EXCEPT !.graphManager_ = "this"]

\* NodePrepare calling updateFadeInSamples() before assigning sampleRate_
NodePrepare_StaleRate(n, sampleRate, blockSize) ==
  [n EXCEPT !.sampleRate_ = sampleRate,
            !.blockSize_ = blockSize,
            !.fadeInSamples_ = updateFadeInSamples(n.fadeInDurationMs_, n.sampleRate_),
            !.currentFadeSample_ = 0,
            !.fadeInActive_ = (n.fadeInDurationMs_ > 0)]

\* Node::prepare(sampleRate, blockSize)
NodePrepare(n, sampleRate, blockSize) ==
  [n EXCEPT !.sampleRate_ = sampleRate,
            !.blockSize_ = blockSize,
            !.fadeInSamples_ = updateFadeInSamples(n.fadeInDurationMs_, sampleRate),
            !.currentFadeSample_ = 0,
            !.fadeInActive_ = (n.fadeInDurationMs_ > 0)]

\* setFadeInDuration without the call of updateFadeInSamples()
NodeSetFadeInDuration_KeepsSamples(n, durationMs) ==
  [n EXCEPT !.fadeInDurationMs_ = durationMs]

\* Node::setFadeInDuration(durationMs)
NodeSetFadeInDuration(n, durationMs) ==
  [n EXCEPT !.fadeInDurationMs_ = durationMs,
            !.fadeInSamples_ = updateFadeInSamples(durationMs, n.sampleRate_)]

\* resetFadeIn without the assignment of currentFadeSample_
NodeResetFadeIn_KeepsPosition(n) ==
  [n EXCEPT !.fadeInActive_ = (n.fadeInDurationMs_ > 0)]

\* Node::resetFadeIn()
NodeResetFadeIn(n) ==
  [n EXCEPT !.currentFadeSample_ = 0,
            !.fadeInActive_ = (n.fadeInDurationMs_ > 0)]

\* What applyFadeIn does to one sample: buffer[i] *= num / den, or nothing.
Scaled(num, den) == [scaled |-> TRUE, num |-> num, den |-> den]
Unscaled == [scaled |-> FALSE, num |-> 1, den |-> 1]

\* FadeLoop testing currentFadeSample_ <= fadeInSamples_
RECURSIVE FadeLoop_Inclusive(_, _, _)
FadeLoop_Inclusive(n, left, gains) ==
  IF left = 0
    THEN [node |-> n, gains |-> gains]
    ELSE IF n.currentFadeSample_ <= n.fadeInSamples_
           THEN FadeLoop_Inclusive([n EXCEPT !.currentFadeSample_ = @ + 1], left - 1,
                                   Append(gains, Scaled(n.currentFadeSample_,
                                                        n.fadeInSamples_)))
           ELSE [node |-> [n EXCEPT !.fadeInActive_ = FALSE],
                 gains |-> gains \o [i \in 1..left |-> Unscaled]]

\* the for loop of Node::applyFadeIn with `left` samples still to visit;
\* `gains` holds what was done to the samples visited so far, and the
\* samples after a break are left as they are
RECURSIVE FadeLoop(_, _, _)
FadeLoop(n, left, gains) ==
  IF left = 0
    THEN [node |-> n, gains |-> gains]
    ELSE IF n.currentFadeSample_ < n.fadeInSamples_
           THEN FadeLoop([n EXCEPT !.currentFadeSample_ = @ + 1], left - 1,
                         Append(gains, Scaled(n.currentFadeSample_, n.fadeInSamples_)))
           ELSE [node |-> [n EXCEPT !.fadeInActive_ = FALSE],
                 gains |-> gains \o [i \in 1..left |-> Unscaled]]

\* Node::applyFadeIn(buffer, nFrames): the node afterwards and what was done
\* to each of the nFrames samples
NodeApplyFadeIn(n, nFrames) ==
  IF ~n.fadeInActive_
    THEN [node |-> n, gains |-> [i \in 1..nFrames |-> Unscaled]]
    ELSE FadeLoop(n, nFrames, <<>>)

(***************************************************************************)
(* ms::Node, parameters                                                    *)
(***************************************************************************)
Param(paramName, paramValue) == [name |-> paramName, value |-> paramValue]

\* the vectors callers pass to setParams; names may repeat
ParamVectors ==
  UNION {[1..n -> {Param(name, value) : name \in ParamNames, value \in ControlValues}] :
           n \in 0..MaxParams}

\* where the range-for over params_ stops: the index of the first parameter
\* with the name, 0 when the loop runs to the end
FirstNamed(params, name) ==
  LET hits == {i \in 1..Len(params) : params[i].name = name}
  IN  IF hits = {} THEN 0 ELSE CHOOSE i \in hits : \A j \in hits : i <= j

\* what getParam returns: a pointer to a value, or nullptr
Found(value) == [found |-> TRUE, value |-> value]
NotFound == [found |-> FALSE, value |-> [type |-> "none", v |-> 0]]

\* Node::getParam(name)
NodeGetParam(params, name) ==
  LET i == FirstNamed(params, name)
  IN  IF i = 0 THEN NotFound ELSE Found(params[i].value)

\* setParam appending the parameter when the name is unknown
NodeSetParam_CreatesMissing(params, name, value) ==
  LET i == FirstNamed(params, name)
  IN  IF i = 0
        THEN [found |-> TRUE, params |-> Append(params, Param(name, value))]
        ELSE [found |-> TRUE, params |-> [params EXCEPT ![i].value = value]]

\* Node::setParam(name, value): the return value and params_ afterwards
NodeSetParam(params, name, value) ==
  LET i == FirstNamed(params, name)
  IN  IF i = 0
        THEN [found |-> FALSE, params |-> params]
        ELSE [found |-> TRUE, params |-> [params EXCEPT ![i].value = value]]

(***************************************************************************)
(* ms::GraphManager, helpers                                               *)
(***************************************************************************)
Connection(fromId, fromPort, toId, toPort) ==
  [fromNodeId |-> fromId, fromPortName |-> fromPort,
   toNodeId |-> toId, toPortName |-> toPort]

\* std::vector<float>(blockSize, 0.0f)
ZeroBuffer(blockSize) == [i \in 1..blockSize |-> 0]

\* the buffers allocateBuffersForNode builds for a node: one per output port
\* of type Audio, in port order
AudioBuffersFor(o, blockSize) ==
  LET audio == SelectSeq(getOutputPorts[o], LAMBDA t : t = "Audio")
  IN  [i \in 1..Len(audio) |-> ZeroBuffer(blockSize)]

\* RemoveTouching testing the source id only
RemoveTouching_SourceOnly(conns, nodeId) ==
  SelectSeq(conns, LAMBDA c : ~(c.fromNodeId = nodeId))

\* erase(remove_if(... fromNodeId == nodeId || toNodeId == nodeId ...))
RemoveTouching(conns, nodeId) ==
  SelectSeq(conns, LAMBDA c : ~(c.fromNodeId = nodeId \/ c.toNodeId = nodeId))

\* RemoveMatching without the comparison of toPortName
RemoveMatching_IgnoresToPort(conns, fromId, fromPort, toId, toPort) ==
  SelectSeq(conns, LAMBDA c : ~(c.fromNodeId = fromId /\ c.fromPortName = fromPort /\
                                c.toNodeId = toId))

\* RemoveMatching erasing the first match only (find + erase)
RemoveMatching_FirstOnly(conns, fromId, fromPort, toId, toPort) ==
  LET t == [fromNodeId |-> fromId, fromPortName |-> fromPort,
            toNodeId |-> toId, toPortName |-> toPort]
      hits == {i \in 1..Len(conns) : conns[i] = t}
  IN  IF hits = {}
        THEN conns
        ELSE LET first == CHOOSE i \in hits : \A j \in hits : i <= j
             IN  [k \in 1..(Len(conns) - 1) |-> IF k < first THEN conns[k] ELSE conns[k + 1]]

\* remove_if(... all four fields equal ...)
RemoveMatching(conns, fromId, fromPort, toId, toPort) ==
  SelectSeq(conns, LAMBDA c : ~(c.fromNodeId = fromId /\ c.fromPortName = fromPort /\
                                c.toNodeId = toId /\ c.toPortName = toPort))

\* RemoveById with the erase forgotten
RemoveById_Skip(ordered, id) == ordered

\* erase(remove_if(... node->id == id ...)) on the execution-order list
RemoveById(ordered, id) == SelectSeq(ordered, LAMBDA o : objId[o] # id)


\* The three buffer maps as one value, for the allocation helpers.
Buffers(audio, control, event) == [audio |-> audio, control |-> control, event |-> event]

\* GraphManager::allocateBuffersForNode(nodeId), on registry `nodes`
allocateBuffersForNode(bufs, nodes, blockSize, nodeId) ==
  IF nodeId \notin DOMAIN nodes
    THEN bufs
    ELSE LET buffers == AudioBuffersFor(nodes[nodeId], blockSize)
         IN  Buffers(IF buffers # <<>> THEN MapPut(bufs.audio, nodeId, buffers)
                                       ELSE bufs.audio,
                     MapPut(bufs.control, nodeId, EmptyMap),
                     MapPut(bufs.event, nodeId, EmptyMap))

\* the loop of allocateBuffers over the ids still to visit
RECURSIVE AllocateEach(_, _, _, _)
AllocateEach(bufs, nodes, blockSize, ids) ==
  IF ids = {}
    THEN bufs
    ELSE LET id == CHOOSE k \in ids : TRUE
         IN  AllocateEach(allocateBuffersForNode(bufs, nodes, blockSize, id),
                          nodes, blockSize, ids \ {id})

\* allocateBuffers without the three clear() calls, allocating only for the
\* nodes that hold no audio buffers yet
allocateBuffers_KeepsOld(nodes, blockSize) ==
  AllocateEach(Buffers(audioBuffers_, controlValues_, eventBuffers_), nodes, blockSize,
               {id \in DOMAIN nodes : id \notin DOMAIN audioBuffers_})

\* GraphManager::allocateBuffers()
allocateBuffers(nodes, blockSize) ==
  AllocateEach(Buffers(EmptyMap, EmptyMap, EmptyMap), nodes, blockSize, DOMAIN nodes)

\* the objects held by a list of NodePtr
Range(seq) == {seq[i] : i \in 1..Len(seq)}

\* the loop of GraphManager::prepare over orderedNodes_
PrepareEach(state, ordered, sampleRate, blockSize) ==
  [o \in Objs |-> IF o \in Range(ordered)
                    THEN NodePrepare(setGraphManager(state[o]), sampleRate, blockSize)
                    ELSE state[o]]

Call(op, args, ret) == [op |-> op, args |-> args, ret |-> ret]

\* History of the fade-in of one node: whether Node::prepare has run,
\* whether setFadeInDuration has run since the last Node::prepare, how many
\* samples applyFadeIn was handed since the last prepare or resetFadeIn, and
\* the ramp position that prepare or resetFadeIn found.  After construction:
NoRamp == [prepared |-> FALSE, retimed |-> FALSE, since |-> 0, cut |-> 0]
\* pc while the control-plane thread is outside clear(); inside, pc is the
\* source line of the next statement of clear() to run
Idle == 0

\* The threads that call into the one GraphManager, the value of graphMutex_
\* while no thread holds it, and the frame of a thread that is in no call.
\* A frame names the function the thread called, the line of Node.cpp of the
\* statement it runs next, and the call's arguments.
Threads == {"t1", "t2"}
Free == "free"
Frame(fn, line, a) == [fn |-> fn, line |-> line, a |-> a]
Outside == Frame("", Idle, <<>>)

(***************************************************************************)
(* ms::GraphManager, state after construction                              *)
(***************************************************************************)
Init ==
  /\ nodes_ = EmptyMap
  /\ orderedNodes_ = <<>>
  /\ connections_ = <<>>
  /\ audioBuffers_ = EmptyMap
  /\ controlValues_ = EmptyMap
  /\ eventBuffers_ = EmptyMap
  /\ sampleRate_ = DefaultSampleRate
  /\ blockSize_ = DefaultBlockSize
  /\ isPrepared_ = FALSE
  /\ nodeState = [o \in Objs |-> NewNode]
  /\ lastCall = Call("GraphManager", <<>>, "void")
  /\ params_ = <<>>
  /\ ramp = NoRamp
  /\ pc = Idle
  /\ graphMutex_ = Free
  /\ frames = [t \in Threads |-> Outside]

(***************************************************************************)
(* ms::GraphManager, operations                                            *)
(***************************************************************************)
\* CreateNodeEffect without the isPrepared_ branch (lines 54-58)
CreateNodeEffect_RegisterOnly(id, node) ==
  /\ nodes_' = MapPut(nodes_, id, node)
  /\ orderedNodes_' = Append(orderedNodes_, node)
  /\ UNCHANGED <<nodeState, audioBuffers_, controlValues_, eventBuffers_>>
  /\ UNCHANGED <<connections_, sampleRate_, blockSize_, isPrepared_>>

\* the state createNode leaves when the id is new
CreateNodeEffect(id, node) ==
  LET nodes == MapPut(nodes_, id, node)
  IN  /\ nodes_' = nodes
      /\ orderedNodes_' = Append(orderedNodes_, node)
      /\ IF isPrepared_
           THEN LET bufs == allocateBuffersForNode(
                              Buffers(audioBuffers_, controlValues_, eventBuffers_),
                              nodes, blockSize_, id)
                IN  /\ nodeState' = [nodeState EXCEPT ![node] =
                         NodePrepare(setGraphManager(@), sampleRate_, blockSize_)]
                    /\ audioBuffers_' = bufs.audio
                    /\ controlValues_' = bufs.control
                    /\ eventBuffers_' = bufs.event
           ELSE UNCHANGED <<nodeState, audioBuffers_, controlValues_, eventBuffers_>>
      /\ UNCHANGED <<connections_, sampleRate_, blockSize_, isPrepared_>>

\* createNode without the lookup of an existing id
createNode_NoDuplicateCheck(id, node) ==
  /\ Len(orderedNodes_) < MaxOrdered
  /\ CreateNodeEffect(id, node)
  /\ lastCall' = Call("createNode", <<id, node>>, node)
  /\ UNCHANGED nodeSide

createNode(id, node) ==
  IF id \in DOMAIN nodes_
    THEN /\ lastCall' = Call("createNode", <<id, node>>, nullptr)
         /\ UNCHANGED <<graph, nodeState, nodeSide>>
    ELSE /\ Len(orderedNodes_) < MaxOrdered
         /\ CreateNodeEffect(id, node)
         /\ lastCall' = Call("createNode", <<id, node>>, node)
         /\ UNCHANGED nodeSide

\* RemoveNodeEffect without the call of disconnectAll
RemoveNodeEffect_NoCascade(id) ==
  /\ orderedNodes_' = RemoveById(orderedNodes_, id)
  /\ nodes_' = MapErase(nodes_, id)
  /\ audioBuffers_' = MapErase(audioBuffers_, id)
  /\ controlValues_' = MapErase(controlValues_, id)
  /\ eventBuffers_' = MapErase(eventBuffers_, id)
  /\ UNCHANGED <<connections_, sampleRate_, blockSize_, isPrepared_, nodeState>>

\* the state removeNode leaves when the id is registered
RemoveNodeEffect(id) ==
  /\ connections_' = RemoveTouching(connections_, id)
  /\ orderedNodes_' = RemoveById(orderedNodes_, id)
  /\ nodes_' = MapErase(nodes_, id)
  /\ audioBuffers_' = MapErase(audioBuffers_, id)
  /\ controlValues_' = MapErase(controlValues_, id)
  /\ eventBuffers_' = MapErase(eventBuffers_, id)
  /\ UNCHANGED <<sampleRate_, blockSize_, isPrepared_, nodeState>>

\* removeNode without the lookup of the id
removeNode_NoLookup(id) ==
  /\ RemoveNodeEffect(id)
  /\ lastCall' = Call("removeNode", <<id>>, TRUE)
  /\ UNCHANGED nodeSide

removeNode(id) ==
  IF id \notin DOMAIN nodes_
    THEN /\ lastCall' = Call("removeNode", <<id>>, FALSE)
         /\ UNCHANGED <<graph, nodeState, nodeSide>>
    ELSE /\ RemoveNodeEffect(id)
         /\ lastCall' = Call("removeNode", <<id>>, TRUE)
         /\ UNCHANGED nodeSide

\* ConnectAccepts without the lookup of the destination
ConnectAccepts_SourceOnly(fromId, toId) == fromId \in DOMAIN nodes_

\* ConnectAccepts refusing a connection of a node to itself
ConnectAccepts_NoSelf(fromId, toId) ==
  fromId \in DOMAIN nodes_ /\ toId \in DOMAIN nodes_ /\ fromId # toId

\* whether connect gets past its two lookups
ConnectAccepts(fromId, toId) == fromId \in DOMAIN nodes_ /\ toId \in DOMAIN nodes_

connect(fromId, fromPort, toId, toPort) ==
  /\ lastCall' = Call("connect", <<fromId, fromPort, toId, toPort>>, "void")
  /\ IF ConnectAccepts(fromId, toId)
       THEN /\ Len(connections_) < MaxConns
            /\ connections_' = Append(connections_,
                                      Connection(fromId, fromPort, toId, toPort))
       ELSE UNCHANGED connections_
  /\ UNCHANGED <<nodes_, orderedNodes_, audioBuffers_, controlValues_,
                 eventBuffers_, sampleRate_, blockSize_, isPrepared_, nodeState>>
  /\ UNCHANGED nodeSide

disconnect(fromId, fromPort, toId, toPort) ==
  LET kept == RemoveMatching(connections_, fromId, fromPort, toId, toPort)
  IN  /\ connections_' = kept
      /\ lastCall' = Call("disconnect", <<fromId, fromPort, toId, toPort>>,
                          Len(kept) # Len(connections_))
      /\ UNCHANGED <<nodes_, orderedNodes_, audioBuffers_, controlValues_,
                     eventBuffers_, sampleRate_, blockSize_, isPrepared_, nodeState>>
      /\ UNCHANGED nodeSide

disconnectAll(nodeId) ==
  /\ connections_' = RemoveTouching(connections_, nodeId)
  /\ lastCall' = Call("disconnectAll", <<nodeId>>, "void")
  /\ UNCHANGED <<nodes_, orderedNodes_, audioBuffers_, controlValues_,
                 eventBuffers_, sampleRate_, blockSize_, isPrepared_, nodeState>>
  /\ UNCHANGED nodeSide

\* the fields clear() assigns
ClearEffect ==
  /\ nodes_' = EmptyMap
  /\ orderedNodes_' = <<>>
  /\ connections_' = <<>>
  /\ audioBuffers_' = EmptyMap
  /\ controlValues_' = EmptyMap
  /\ eventBuffers_' = EmptyMap
  /\ UNCHANGED <<sampleRate_, blockSize_, isPrepared_>>

clear ==
  /\ ClearEffect
  /\ lastCall' = Call("clear", <<>>, "void")
  /\ UNCHANGED <<nodeState, nodeSide>>

prepare(sampleRate, blockSize) ==
  LET bufs == allocateBuffers(nodes_, blockSize)
  IN  /\ sampleRate_' = sampleRate
      /\ blockSize_' = blockSize
      /\ nodeState' = PrepareEach(nodeState, orderedNodes_, sampleRate, blockSize)
      /\ audioBuffers_' = bufs.audio
      /\ controlValues_' = bufs.control
      /\ eventBuffers_' = bufs.event
      /\ isPrepared_' = TRUE
      /\ lastCall' = Call("prepare", <<sampleRate, blockSize>>, "void")
      /\ UNCHANGED <<nodes_, orderedNodes_, connections_>>
      /\ UNCHANGED nodeSide

Next ==
  \/ \E id \in NodeIds, node \in Objs : createNode(id, node)
  \/ \E id \in NodeIds : removeNode(id)
  \/ \E c \in ConnArgs : connect(c[1], c[2], c[3], c[4])
  \/ \E c \in ConnArgs : disconnect(c[1], c[2], c[3], c[4])
  \/ \E nodeId \in NodeIds : disconnectAll(nodeId)
  \/ clear
  \/ \E a \in PrepareArgs : prepare(a[1], a[2])

Spec == Init /\ [][Next]_vars

(***************************************************************************)
(* ms::Node driven directly: the fade-in of one node.  Its owner calls     *)
(* prepare, setFadeInDuration and resetFadeIn, and its process() calls     *)
(* applyFadeIn once per block.                                             *)
(***************************************************************************)
Node_prepare(sampleRate, blockSize) ==
  /\ nodeState' = [nodeState EXCEPT ![FadeNode] = NodePrepare(@, sampleRate, blockSize)]
  /\ ramp' = [prepared |-> TRUE, retimed |-> FALSE, since |-> 0,
              cut |-> nodeState[FadeNode].currentFadeSample_]
  /\ lastCall' = Call("Node::prepare", <<sampleRate, blockSize>>, "void")
  /\ UNCHANGED <<graph, params_, pc, threadSide>>

setFadeInDuration(durationMs) ==
  /\ nodeState' = [nodeState EXCEPT ![FadeNode] = NodeSetFadeInDuration(@, durationMs)]
  /\ ramp' = [ramp EXCEPT !.retimed = TRUE]
  /\ lastCall' = Call("setFadeInDuration", <<durationMs>>, "void")
  /\ UNCHANGED <<graph, params_, pc, threadSide>>

resetFadeIn ==
  /\ nodeState' = [nodeState EXCEPT ![FadeNode] = NodeResetFadeIn(@)]
  /\ ramp' = [ramp EXCEPT !.since = 0, !.cut = nodeState[FadeNode].currentFadeSample_]
  /\ lastCall' = Call("resetFadeIn", <<>>, "void")
  /\ UNCHANGED <<graph, params_, pc, threadSide>>

applyFadeIn(nFrames) ==
  LET done == NodeApplyFadeIn(nodeState[FadeNode], nFrames)
  IN  /\ ramp.since + nFrames <= MaxSamples
      /\ nodeState' = [nodeState EXCEPT ![FadeNode] = done.node]
      /\ ramp' = [ramp EXCEPT !.since = @ + nFrames]
      /\ lastCall' = Call("applyFadeIn", <<nFrames>>, done.gains)
      /\ UNCHANGED <<graph, params_, pc, threadSide>>

FadeNext ==
  \/ \E a \in NodePrepareArgs : Node_prepare(a[1], a[2])
  \/ \E durationMs \in FadeDurations : setFadeInDuration(durationMs)
  \/ resetFadeIn
  \/ \E nFrames \in 0..MaxFrames : applyFadeIn(nFrames)

FadeSpec == Init /\ [][FadeNext]_vars

(***************************************************************************)
(* ms::Node driven directly: the parameters of one node.                   *)
(***************************************************************************)
setParams(newParams) ==
  /\ params_' = newParams
  /\ lastCall' = Call("setParams", <<newParams>>, "void")
  /\ UNCHANGED <<graph, nodeState, ramp, pc, threadSide>>

setParam(name, value) ==
  LET done == NodeSetParam(params_, name, value)
  IN  /\ params_' = done.params
      /\ lastCall' = Call("setParam", <<name, value>>, done.found)
      /\ UNCHANGED <<graph, nodeState, ramp, pc, threadSide>>

getParam(name) ==
  /\ lastCall' = Call("getParam", <<name>>, NodeGetParam(params_, name))
  /\ UNCHANGED <<graph, nodeState, ramp, pc, params_, threadSide>>

ParamNext ==
  \/ \E newParams \in ParamVectors : setParams(newParams)
  \/ \E name \in ParamNames, value \in ControlValues : setParam(name, value)
  \/ \E name \in ParamNames : getParam(name)

ParamSpec == Init /\ [][ParamNext]_vars

(***************************************************************************)
(* GraphManager::process(nFrames), block execution.  The function is       *)
(* declared (GraphManager.hpp:211-212) and has no definition in the        *)
(* sources; it is modelled from its specification: for each node in        *)
(* execution order, each audio input port gets the sample-by-sample sum of *)
(* the source buffers of the connections ending there, accumulated in a    *)
(* scratch buffer cleared to silence, then the node's process writes its   *)
(* audio output buffers.                                                   *)
(***************************************************************************)
Silence(nFrames) == [i \in 1..nFrames |-> 0]

\* the position of the output port `portName` of node o among its Audio
\* output ports, 0 when o has no Audio output of that name
AudioIndex(o, portName) ==
  LET hits == {i \in 1..Len(outputPortNames[o]) :
                 outputPortNames[o][i] = portName /\ getOutputPorts[o][i] = "Audio"}
  IN  IF hits = {}
        THEN 0
        ELSE LET first == CHOOSE i \in hits : \A j \in hits : i <= j
             IN  Cardinality({i \in 1..first : getOutputPorts[o][i] = "Audio"})

\* the first nFrames samples of the buffer a connection reads, silence when
\* the source has no such buffer
SourceBuffer(audio, c, nFrames) ==
  LET k == IF c.fromNodeId \in DOMAIN nodes_
             THEN AudioIndex(nodes_[c.fromNodeId], c.fromPortName) ELSE 0
  IN  IF k # 0 /\ c.fromNodeId \in DOMAIN audio /\ k <= Len(audio[c.fromNodeId])
        THEN [i \in 1..nFrames |-> audio[c.fromNodeId][k][i]]
        ELSE Silence(nFrames)

\* the scratch buffer of input port (id, portName) after the connections
\* conns[1..n] have been accumulated into it
RECURSIVE Accumulate(_, _, _, _, _, _)
Accumulate(audio, conns, n, id, portName, nFrames) ==
  IF n = 0
    THEN Silence(nFrames)
    ELSE LET sofar == Accumulate(audio, conns, n - 1, id, portName, nFrames)
             c == conns[n]
         IN  IF c.toNodeId = id /\ c.toPortName = portName
               THEN LET src == SourceBuffer(audio, c, nFrames)
                    IN  [i \in 1..nFrames |-> sofar[i] + src[i]]
               ELSE sofar

\* the buffers handed to a node: one per input port
GatherInputs(audio, o, nFrames) ==
  [p \in Range(inputPortNames[o]) |->
     Accumulate(audio, connections_, Len(connections_), objId[o], p, nFrames)]

\* the node's process(): nFrames samples of its value into each own buffer
WriteOutputs(audio, o, nFrames) ==
  IF objId[o] \notin DOMAIN audio
    THEN audio
    ELSE [audio EXCEPT ![objId[o]] =
            [k \in 1..Len(@) |->
               [i \in 1..Len(@[k]) |-> IF i <= nFrames /\ k <= Len(Emits[o])
                                         THEN Emits[o][k] ELSE @[k][i]]]]

\* the loop over orderedNodes_ from position n on: the audio buffers at the
\* end of the block and the inputs every node was handed
RECURSIVE ProcessFrom(_, _, _, _)
ProcessFrom(n, audio, seen, nFrames) ==
  IF n > Len(orderedNodes_)
    THEN [audio |-> audio, seen |-> seen]
    ELSE LET o == orderedNodes_[n]
         IN  ProcessFrom(n + 1, WriteOutputs(audio, o, nFrames),
                         MapPut(seen, objId[o], GatherInputs(audio, o, nFrames)),
                         nFrames)

process(nFrames) ==
  LET block == ProcessFrom(1, audioBuffers_, EmptyMap, nFrames)
  IN  /\ isPrepared_
      /\ nFrames = blockSize_
      /\ audioBuffers_' = block.audio
      /\ lastCall' = Call("process", <<nFrames>>, block.seen)
      /\ UNCHANGED <<nodes_, orderedNodes_, connections_, controlValues_,
                     eventBuffers_, sampleRate_, blockSize_, isPrepared_, nodeState>>
      /\ UNCHANGED nodeSide

\* An application that builds a graph, prepares it and runs blocks.
ProcNext ==
  \/ \E b \in BuildArgs : createNode(b[1], b[2])
  \/ \E c \in RouteArgs : connect(c[1], c[2], c[3], c[4])
  \/ \E a \in PrepareArgs : prepare(a[1], a[2])
  \/ \E a \in PrepareArgs : process(a[2])

ProcSpec == Init /\ [][ProcNext]_vars

(***************************************************************************)
(* Two threads on one GraphManager: the control-plane thread issues the    *)
(* mutations, the processing thread runs process.  createNode, removeNode, *)
(* connect, disconnect and prepare hold graphMutex_ from their first       *)
(* statement to their return and are one step each.  clear() takes no      *)
(* lock (Node.cpp:151-159): each of its six statements is a step, and the  *)
(* processing thread can run between any two of them.  A process call is   *)
(* taken to read the graph at one instant, as it would holding the mutex,  *)
(* which is the reading most favourable to the code.                       *)
(***************************************************************************)
\* the statement of clear() at source line `line`
clearLine(line) ==
  /\ pc = IF line = 152 THEN Idle ELSE line
  /\ pc' = IF line = 157 THEN Idle ELSE line + 1
  /\ nodes_' = IF line = 152 THEN EmptyMap ELSE nodes_
  /\ orderedNodes_' = IF line = 153 THEN <<>> ELSE orderedNodes_
  /\ connections_' = IF line = 154 THEN <<>> ELSE connections_
  /\ audioBuffers_' = IF line = 155 THEN EmptyMap ELSE audioBuffers_
  /\ controlValues_' = IF line = 156 THEN EmptyMap ELSE controlValues_
  /\ eventBuffers_' = IF line = 157 THEN EmptyMap ELSE eventBuffers_
  /\ lastCall' = IF line = 157 THEN Call("clear", <<>>, "void") ELSE lastCall
  /\ UNCHANGED <<sampleRate_, blockSize_, isPrepared_, nodeState, params_, ramp>>
  /\ UNCHANGED threadSide

ConcNext ==
  \/ pc = Idle /\ \E b \in BuildArgs : createNode(b[1], b[2])
  \/ pc = Idle /\ \E id \in NodeIds : removeNode(id)
  \/ pc = Idle /\ \E c \in RouteArgs : connect(c[1], c[2], c[3], c[4])
  \/ pc = Idle /\ \E c \in RouteArgs : disconnect(c[1], c[2], c[3], c[4])
  \/ pc = Idle /\ \E nodeId \in NodeIds : disconnectAll(nodeId)
  \/ pc = Idle /\ \E a \in PrepareArgs : prepare(a[1], a[2])
  \/ \E line \in 152..157 : clearLine(line)
  \/ \E a \in PrepareArgs : process(a[2])

ConcSpec == Init /\ [][ConcNext]_vars

(***************************************************************************)
(* Threads on one GraphManager, statement by statement.  A thread outside  *)
(* any call may call a function; from then on each step runs the statement *)
(* at frames[t].line of Node.cpp and moves to the next one.  A statement   *)
(* is the unit of interleaving: it runs to completion before any other     *)
(* thread's next statement.  std::lock_guard acquires graphMutex_ at its   *)
(* declaration and releases it when the function returns, whatever the     *)
(* return statement; std::mutex is not recursive, so a thread that asks    *)
(* for the mutex it holds waits like any other.                            *)
(***************************************************************************)
\* the function of Node.cpp that holds a line (211-212: process, which has
\* only its declaration, GraphManager.hpp:211-212)
FnAt(line) ==
  CASE line = 39 -> "~GraphManager"
    [] line \in 41..60 -> "createNode"
    [] line \in 62..85 -> "removeNode"
    [] line \in 87..93 -> "getNode"
    [] line \in 95..115 -> "connect"
    [] line \in 117..138 -> "disconnect"
    [] line \in 140..149 -> "disconnectAll"
    [] line \in 151..159 -> "clear"
    [] line \in 161..177 -> "prepare"
    [] line \in 211..212 -> "process"
    [] OTHER -> ""

\* where a call of the function starts: the lock_guard declaration of the
\* functions that have one, the function header of the others
Entry(fn) ==
  CASE fn = "~GraphManager" -> 39
    [] fn = "createNode" -> 42
    [] fn = "removeNode" -> 63
    [] fn = "getNode" -> 87
    [] fn = "connect" -> 98
    [] fn = "disconnect" -> 121
    [] fn = "disconnectAll" -> 140
    [] fn = "clear" -> 151
    [] fn = "prepare" -> 162
    [] fn = "process" -> 211

\* the first statement after the entry
First(fn) ==
  CASE fn = "createNode" -> 44
    [] fn = "removeNode" -> 65
    [] fn = "getNode" -> 88
    [] fn = "connect" -> 100
    [] fn = "disconnect" -> 123
    [] fn = "disconnectAll" -> 141
    [] fn = "clear" -> 152
    [] fn = "prepare" -> 164

\* the return statements and closing braces
ReturnLines == {46, 59, 68, 84, 90, 92, 103, 108, 115, 133, 137, 149, 159, 177}

\* every function declaring a lock_guard on graphMutex_
Acquires_Every(fn) == TRUE

\* whether the function declares std::lock_guard<std::mutex> lock(graphMutex_)
\* (lines 42, 63, 98, 121, 162; none in getNode, disconnectAll, clear)
Acquires(fn) == fn \in {"createNode", "removeNode", "connect", "disconnect", "prepare"}

\* the statements that read or write nodes_, orderedNodes_, connections_ or
\* the buffer maps
AccessLines == {44, 49, 50, 55, 65, 73, 78, 79, 80, 81, 88, 100, 105, 111, 123,
                141, 152, 153, 154, 155, 156, 157, 167, 172}

\* node->setGraphManager / node->prepare / allocateBuffersForNode in
\* createNode, the loop over the nodes and allocateBuffers in prepare
ConstructionLines == {53, 54, 55, 167, 172}

At(t, line) == frames[t].line = line
Goto(t, line) == frames' = [frames EXCEPT ![t].line = line]
InCall(t) == frames[t].line # Idle
\* the number of calls of fn in progress
InFlight(fn) == Cardinality({t \in Threads : InCall(t) /\ frames[t].fn = fn})
\* ~GraphManager has been called: the object is being destroyed or is gone
Destroyed == \E t \in Threads : frames[t].fn = "~GraphManager"

\* thread t calls fn(a)
Invoke(t, fn, a) ==
  /\ frames[t] = Outside
  /\ ~Destroyed
  /\ frames' = [frames EXCEPT ![t] = Frame(fn, Entry(fn), a)]
  /\ UNCHANGED <<graph, nodeState, params_, ramp, pc, graphMutex_, lastCall>>

\* the owner destroys the GraphManager while no call is in progress
InvokeDestructor(t) ==
  /\ \A u \in Threads : frames[u] = Outside
  /\ frames' = [frames EXCEPT ![t] = Frame("~GraphManager", 39, <<>>)]
  /\ UNCHANGED <<graph, nodeState, params_, ramp, pc, graphMutex_, lastCall>>

\* line 39, ~GraphManager: the call of clear()
Destructor(t) ==
  /\ At(t, 39)
  /\ Goto(t, Entry("clear"))
  /\ UNCHANGED <<graph, nodeState, params_, ramp, pc, graphMutex_, lastCall>>

\* the entry of a function of Node.cpp: the lock_guard, where there is one
Enter(t) ==
  LET fn == FnAt(frames[t].line)
  IN  /\ InCall(t)
      /\ fn \notin {"~GraphManager", "process", ""}
      /\ At(t, Entry(fn))
      /\ IF Acquires(fn)
           THEN graphMutex_ = Free /\ graphMutex_' = t
           ELSE UNCHANGED graphMutex_
      /\ Goto(t, First(fn))
      /\ UNCHANGED <<graph, nodeState, params_, ramp, pc, lastCall>>

\* a return: the lock_guard, where there is one, releases the mutex, and the
\* thread is back in its caller (removeNode line 71, ~GraphManager line 39)
\* or outside
Return(t) ==
  LET f == frames[t]
      fn == FnAt(f.line)
  IN  /\ f.line \in ReturnLines
      /\ graphMutex_' = IF Acquires(fn) THEN Free ELSE graphMutex_
      /\ frames' = [frames EXCEPT ![t] =
           IF f.fn = "removeNode" /\ fn = "disconnectAll" THEN Frame(f.fn, 73, f.a)
           ELSE IF f.fn = "~GraphManager" THEN Frame(f.fn, Idle, <<>>)
           ELSE Outside]
      /\ UNCHANGED <<graph, nodeState, params_, ramp, pc, lastCall>>

\* createNode(id, node), lines 44-57
createNodeStep(t) ==
  LET id == frames[t].a[1]
      node == frames[t].a[2]
  IN  /\ UNCHANGED <<connections_, sampleRate_, blockSize_, isPrepared_,
                     params_, ramp, pc, graphMutex_, lastCall>>
      /\ \/ /\ At(t, 44)
            /\ Goto(t, IF id \in DOMAIN nodes_ THEN 46 ELSE 49)
            /\ UNCHANGED <<nodes_, orderedNodes_, nodeState, audioBuffers_,
                           controlValues_, eventBuffers_>>
         \/ /\ At(t, 49)
            /\ nodes_' = MapPut(nodes_, id, node)
            /\ Goto(t, 50)
            /\ UNCHANGED <<orderedNodes_, nodeState, audioBuffers_,
                           controlValues_, eventBuffers_>>
         \/ /\ At(t, 50)
            /\ orderedNodes_' = Append(orderedNodes_, node)
            /\ Goto(t, 52)
            /\ UNCHANGED <<nodes_, nodeState, audioBuffers_,
                           controlValues_, eventBuffers_>>
         \/ /\ At(t, 52)
            /\ Goto(t, IF isPrepared_ THEN 53 ELSE 59)
            /\ UNCHANGED <<nodes_, orderedNodes_, nodeState, audioBuffers_,
                           controlValues_, eventBuffers_>>
         \/ /\ At(t, 53)
            /\ nodeState' = [nodeState EXCEPT ![node] = setGraphManager(@)]
            /\ Goto(t, 54)
            /\ UNCHANGED <<nodes_, orderedNodes_, audioBuffers_,
                           controlValues_, eventBuffers_>>
         \/ /\ At(t, 54)
            /\ nodeState' = [nodeState EXCEPT ![node] =
                               NodePrepare(@, sampleRate_, blockSize_)]
            /\ Goto(t, 55)
            /\ UNCHANGED <<nodes_, orderedNodes_, audioBuffers_,
                           controlValues_, eventBuffers_>>
         \/ /\ At(t, 55)
            /\ LET bufs == allocateBuffersForNode(
                             Buffers(audioBuffers_, controlValues_, eventBuffers_),
                             nodes_, blockSize_, id)
               IN  /\ audioBuffers_' = bufs.audio
                   /\ controlValues_' = bufs.control
                   /\ eventBuffers_' = bufs.event
            /\ Goto(t, 59)
            /\ UNCHANGED <<nodes_, orderedNodes_, nodeState>>

\* removeNode(id), lines 65-81; nodes_.erase(it) takes the entry of id
removeNodeStep(t) ==
  LET id == frames[t].a[1]
  IN  /\ UNCHANGED <<connections_, sampleRate_, blockSize_, isPrepared_, nodeState,
                     params_, ramp, pc, graphMutex_, lastCall>>
      /\ \/ /\ At(t, 65)
            /\ Goto(t, IF id \notin DOMAIN nodes_ THEN 68 ELSE 71)
            /\ UNCHANGED <<nodes_, orderedNodes_, audioBuffers_,
                           controlValues_, eventBuffers_>>
         \/ /\ At(t, 71)
            /\ Goto(t, Entry("disconnectAll"))
            /\ UNCHANGED <<nodes_, orderedNodes_, audioBuffers_,
                           controlValues_, eventBuffers_>>
         \/ /\ At(t, 73)
            /\ orderedNodes_' = RemoveById(orderedNodes_, id)
            /\ Goto(t, 78)
            /\ UNCHANGED <<nodes_, audioBuffers_, controlValues_, eventBuffers_>>
         \/ /\ At(t, 78)
            /\ nodes_' = MapErase(nodes_, id)
            /\ Goto(t, 79)
            /\ UNCHANGED <<orderedNodes_, audioBuffers_, controlValues_, eventBuffers_>>
         \/ /\ At(t, 79)
            /\ audioBuffers_' = MapErase(audioBuffers_, id)
            /\ Goto(t, 80)
            /\ UNCHANGED <<nodes_, orderedNodes_, controlValues_, eventBuffers_>>
         \/ /\ At(t, 80)
            /\ controlValues_' = MapErase(controlValues_, id)
            /\ Goto(t, 81)
            /\ UNCHANGED <<nodes_, orderedNodes_, audioBuffers_, eventBuffers_>>
         \/ /\ At(t, 81)
            /\ eventBuffers_' = MapErase(eventBuffers_, id)
            /\ Goto(t, 84)
            /\ UNCHANGED <<nodes_, orderedNodes_, audioBuffers_, controlValues_>>

\* getNode(id), line 88
getNodeStep(t) ==
  /\ At(t, 88)
  /\ Goto(t, IF frames[t].a[1] \in DOMAIN nodes_ THEN 90 ELSE 92)
  /\ UNCHANGED <<graph, nodeState, params_, ramp, pc, graphMutex_, lastCall>>

\* connect(fromId, fromPort, toId, toPort), lines 100-111
connectStep(t) ==
  LET a == frames[t].a
  IN  /\ UNCHANGED <<nodes_, orderedNodes_, audioBuffers_, controlValues_,
                     eventBuffers_, sampleRate_, blockSize_, isPrepared_, nodeState,
                     params_, ramp, pc, graphMutex_, lastCall>>
      /\ \/ /\ At(t, 100)
            /\ Goto(t, IF a[1] \notin DOMAIN nodes_ THEN 103 ELSE 105)
            /\ UNCHANGED connections_
         \/ /\ At(t, 105)
            /\ Goto(t, IF a[3] \notin DOMAIN nodes_ THEN 108 ELSE 111)
            /\ UNCHANGED connections_
         \/ /\ At(t, 111)
            /\ connections_' = Append(connections_, Connection(a[1], a[2], a[3], a[4]))
            /\ Goto(t, 115)

\* disconnect(fromId, fromPort, toId, toPort), lines 123-130
disconnectStep(t) ==
  LET a == frames[t].a
      kept == RemoveMatching(connections_, a[1], a[2], a[3], a[4])
  IN  /\ At(t, 123)
      /\ connections_' = kept
      /\ Goto(t, IF Len(kept) # Len(connections_) THEN 133 ELSE 137)
      /\ UNCHANGED <<nodes_, orderedNodes_, audioBuffers_, controlValues_,
                     eventBuffers_, sampleRate_, blockSize_, isPrepared_, nodeState,
                     params_, ramp, pc, graphMutex_, lastCall>>

\* disconnectAll(nodeId), lines 141-146
disconnectAllStep(t) ==
  /\ At(t, 141)
  /\ connections_' = RemoveTouching(connections_, frames[t].a[1])
  /\ Goto(t, 149)
  /\ UNCHANGED <<nodes_, orderedNodes_, audioBuffers_, controlValues_,
                 eventBuffers_, sampleRate_, blockSize_, isPrepared_, nodeState,
                 params_, ramp, pc, graphMutex_, lastCall>>

\* clear(), lines 152-157
clearStep(t) ==
  \E line \in 152..157 :
    /\ At(t, line)
    /\ Goto(t, IF line = 157 THEN 159 ELSE line + 1)
    /\ nodes_' = IF line = 152 THEN EmptyMap ELSE nodes_
    /\ orderedNodes_' = IF line = 153 THEN <<>> ELSE orderedNodes_
    /\ connections_' = IF line = 154 THEN <<>> ELSE connections_
    /\ audioBuffers_' = IF line = 155 THEN EmptyMap ELSE audioBuffers_
    /\ controlValues_' = IF line = 156 THEN EmptyMap ELSE controlValues_
    /\ eventBuffers_' = IF line = 157 THEN EmptyMap ELSE eventBuffers_
    /\ UNCHANGED <<sampleRate_, blockSize_, isPrepared_, nodeState,
                   params_, ramp, pc, graphMutex_, lastCall>>

\* prepare(sampleRate, blockSize), lines 164-173
prepareStep(t) ==
  LET a == frames[t].a
  IN  /\ UNCHANGED <<nodes_, orderedNodes_, connections_,
                     params_, ramp, pc, graphMutex_, lastCall>>
      /\ \/ /\ At(t, 164)
            /\ sampleRate_' = a[1]
            /\ Goto(t, 165)
            /\ UNCHANGED <<blockSize_, isPrepared_, nodeState, audioBuffers_,
                           controlValues_, eventBuffers_>>
         \/ /\ At(t, 165)
            /\ blockSize_' = a[2]
            /\ Goto(t, 167)
            /\ UNCHANGED <<sampleRate_, isPrepared_, nodeState, audioBuffers_,
                           controlValues_, eventBuffers_>>
         \/ /\ At(t, 167)
            /\ nodeState' = PrepareEach(nodeState, orderedNodes_, a[1], a[2])
            /\ Goto(t, 172)
            /\ UNCHANGED <<sampleRate_, blockSize_, isPrepared_, audioBuffers_,
                           controlValues_, eventBuffers_>>
         \/ /\ At(t, 172)
            /\ LET bufs == allocateBuffers(nodes_, blockSize_)
               IN  /\ audioBuffers_' = bufs.audio
                   /\ controlValues_' = bufs.control
                   /\ eventBuffers_' = bufs.event
            /\ Goto(t, 173)
            /\ UNCHANGED <<sampleRate_, blockSize_, isPrepared_, nodeState>>
         \/ /\ At(t, 173)
            /\ isPrepared_' = TRUE
            /\ Goto(t, 177)
            /\ UNCHANGED <<sampleRate_, blockSize_, nodeState, audioBuffers_,
                           controlValues_, eventBuffers_>>

\* process(nFrames), which has no definition in the sources: it shares
\* graphMutex_ with the mutations ("Thread safety for dynamic
\* modifications", GraphManager.hpp:253), takes it on entry (211) and runs the
\* block and returns (212)
processStep(t) ==
  LET nFrames == frames[t].a[1]
      block == ProcessFrom(1, audioBuffers_, EmptyMap, nFrames)
  IN  /\ UNCHANGED <<nodes_, orderedNodes_, connections_, controlValues_,
                     eventBuffers_, sampleRate_, blockSize_, isPrepared_, nodeState,
                     params_, ramp, pc, lastCall>>
      /\ \/ /\ At(t, 211)
            /\ graphMutex_ = Free
            /\ graphMutex_' = t
            /\ Goto(t, 212)
            /\ UNCHANGED audioBuffers_
         \/ /\ At(t, 212)
            /\ audioBuffers_' = IF isPrepared_ /\ nFrames = blockSize_
                                  THEN block.audio ELSE audioBuffers_
            /\ graphMutex_' = Free
            /\ frames' = [frames EXCEPT ![t] = Outside]

\* the steps of thread t inside a call
Run(t) ==
  \/ Destructor(t)
  \/ createNodeStep(t)
  \/ removeNodeStep(t)
  \/ getNodeStep(t)
  \/ connectStep(t)
  \/ disconnectStep(t)
  \/ disconnectAllStep(t)
  \/ clearStep(t)
  \/ prepareStep(t)
  \/ Return(t)

\* The calls below are made on one node, with one route and one format: the
\* node n1 under its own id, the route from its output `out` to its input
\* `in`, which connect accepts, and the second format of PrepareArgs.
ThreadNode == <<"a", "n1">>
ThreadRoute == <<"a", "out", "a", "in">>
ThreadFormat == <<48000, 2>>

\* thread t calls one of the functions that take graphMutex_
LockingCalls(t) ==
  \/ /\ Len(orderedNodes_) + InFlight("createNode") < MaxOrdered
     /\ Invoke(t, "createNode", ThreadNode)
  \/ Invoke(t, "removeNode", <<ThreadNode[1]>>)
  \/ /\ Len(connections_) + InFlight("connect") < MaxConns
     /\ Invoke(t, "connect", ThreadRoute)
  \/ Invoke(t, "disconnect", ThreadRoute)
  \/ Invoke(t, "prepare", ThreadFormat)

\* thread t calls one of the functions that take no lock
UnlockedCalls(t) ==
  \/ Invoke(t, "getNode", <<ThreadNode[1]>>)
  \/ Invoke(t, "disconnectAll", <<ThreadNode[1]>>)
  \/ Invoke(t, "clear", <<>>)
  \/ InvokeDestructor(t)

\* thread t calls process for a block of the prepared size
ProcessCall(t) == isPrepared_ /\ Invoke(t, "process", <<ThreadFormat[2]>>)

\* Two threads, each free to call any function at any time.
ThreadNext ==
  \E t \in Threads :
    \/ LockingCalls(t)
    \/ UnlockedCalls(t)
    \/ ProcessCall(t)
    \/ Enter(t)
    \/ Run(t)
    \/ processStep(t)

ThreadSpec == Init /\ [][ThreadNext]_vars

\* Two threads under fair scheduling, for what the lock does to termination.
\* Thread t1 calls every function of Node.cpp, thread t2 contends for the
\* mutex with the five functions that take it.  A thread inside a call keeps
\* running (weak fairness on its statements), and a thread waiting at a
\* lock_guard gets the mutex if it is free again and again (strong fairness
\* on Enter): the scheduling is fair to every thread.
LockNext ==
  \E t \in Threads :
    \/ LockingCalls(t)
    \/ t = "t1" /\ UnlockedCalls(t)
    \/ Enter(t)
    \/ Run(t)

LockSpec ==
  /\ Init
  /\ [][LockNext]_vars
  /\ \A t \in Threads : WF_vars(Run(t)) /\ SF_vars(Enter(t))

(***************************************************************************)
(* Vocabulary of the properties                                            *)
(***************************************************************************)
Registered(id) == id \in DOMAIN nodes_

\* the 4-tuple of a connect or disconnect call as a Connection
CallTuple(call) == Connection(call.args[1], call.args[2], call.args[3], call.args[4])

Touches(c, id) == c.fromNodeId = id \/ c.toNodeId = id

\* the n-th smallest element of a set of indices
NthOf(K, n) == CHOOSE i \in K : Cardinality({k \in K : k < i}) = n - 1

\* new holds exactly the entries of old at the indices K, in their old order
KeepsInOrder(old, new, K) ==
  /\ Len(new) = Cardinality(K)
  /\ \A n \in 1..Len(new) : new[n] = old[NthOf(K, n)]

\* everything a caller can observe of the graph besides the connection list
\* stays as it is
RestUnchanged ==
  UNCHANGED <<nodes_, orderedNodes_, audioBuffers_, controlValues_,
              eventBuffers_, sampleRate_, blockSize_, isPrepared_, nodeState>>

(***************************************************************************)
(* C1: after any sequence of createNode, removeNode, connect, disconnect,  *)
(* disconnectAll, clear and prepare calls, every connection in the         *)
(* connection list has a fromNodeId and a toNodeId that are both in the    *)
(* node registry.                                                          *)
(***************************************************************************)
C1_ConnectionsNameRegisteredNodes ==
  \A i \in 1..Len(connections_) :
    /\ Registered(connections_[i].fromNodeId)
    /\ Registered(connections_[i].toNodeId)

\* a node that had been connected was removed, and connections of the other
\* node are still in the list
C1_Witness ==
  /\ lastCall.op = "removeNode"
  /\ lastCall.ret = TRUE
  /\ connections_ # <<>>

(***************************************************************************)
(* C2: createNode(id, node) with an id already in the registry returns     *)
(* null and changes nothing: the registry still maps id to the node        *)
(* registered before, and the execution-order list, the connection list,   *)
(* the buffer maps and the prepared flag are unchanged.                    *)
(***************************************************************************)
C2_DuplicateCreateRejected ==
  [][(lastCall'.op = "createNode" /\ Registered(lastCall'.args[1]))
       => /\ lastCall'.ret = nullptr
          /\ nodes_' = nodes_
          /\ nodes_'[lastCall'.args[1]] = nodes_[lastCall'.args[1]]
          /\ UNCHANGED <<orderedNodes_, connections_, audioBuffers_,
                         controlValues_, eventBuffers_, isPrepared_,
                         sampleRate_, blockSize_, nodeState>>]_vars

\* a prepared graph has just rejected a createNode that offered another node
\* object under a registered id
C2_Witness ==
  /\ lastCall.op = "createNode"
  /\ lastCall.ret = nullptr
  /\ isPrepared_
  /\ Registered(lastCall.args[1])
  /\ nodes_[lastCall.args[1]] # lastCall.args[2]

C4_RemoveUnknownIsNoOp ==
  [][/\ (lastCall'.op = "removeNode" /\ ~Registered(lastCall'.args[1]))
          => (lastCall'.ret = FALSE /\ UNCHANGED <<graph, nodeState>>)
     /\ (/\ lastCall.op = "removeNode"
         /\ lastCall.ret = TRUE
         /\ lastCall'.op = "removeNode"
         /\ lastCall'.args = lastCall.args)
          => (lastCall'.ret = FALSE /\ UNCHANGED <<graph, nodeState>>)]_vars

\* removeNode has returned false on a graph that holds a node, a connection
\* and buffers
C4_Witness ==
  /\ lastCall.op = "removeNode"
  /\ lastCall.ret = FALSE
  /\ nodes_ # EmptyMap
  /\ connections_ # <<>>
  /\ DOMAIN controlValues_ # {}

(***************************************************************************)
(* C5: connect(fromId, fromPort, toId, toPort) leaves the connection list  *)
(* and all other graph state unchanged whenever fromId or toId is not in   *)
(* the registry; it adds a connection only when both nodes exist.          *)
(***************************************************************************)
C5_ConnectValidatesEndpoints ==
  [][lastCall'.op = "connect"
       => /\ ~(Registered(lastCall'.args[1]) /\ Registered(lastCall'.args[3]))
               => UNCHANGED <<graph, nodeState>>
          /\ connections_' # connections_
               => (Registered(lastCall'.args[1]) /\ Registered(lastCall'.args[3]))]_vars

\* connect was called with a registered source and an unregistered
\* destination
C5_Witness ==
  /\ lastCall.op = "connect"
  /\ Registered(lastCall.args[1])
  /\ ~Registered(lastCall.args[3])
  /\ connections_ # <<>>

(***************************************************************************)
(* C6: disconnect(fromId, fromPort, toId, toPort) for a 4-tuple that is    *)
(* not in the connection list returns false and leaves the connection list *)
(* unchanged (same connections, same order), whether or not the named      *)
(* nodes exist.                                                            *)
(***************************************************************************)
C6_DisconnectAbsentIsNoOp ==
  [][(/\ lastCall'.op = "disconnect"
      /\ \A i \in 1..Len(connections_) : connections_[i] # CallTuple(lastCall'))
       => (lastCall'.ret = FALSE /\ connections_' = connections_)]_vars

\* disconnect has returned false although the list holds a connection that
\* differs from the tuple in the destination port only
C6_Witness ==
  /\ lastCall.op = "disconnect"
  /\ lastCall.ret = FALSE
  /\ \E i \in 1..Len(connections_) :
       /\ connections_[i].fromNodeId = lastCall.args[1]
       /\ connections_[i].fromPortName = lastCall.args[2]
       /\ connections_[i].toNodeId = lastCall.args[3]
       /\ connections_[i].toPortName # lastCall.args[4]

C9_ClearLeavesFreshGraph ==
  lastCall.op = "clear"
    => /\ nodes_ = EmptyMap
       /\ orderedNodes_ = <<>>
       /\ connections_ = <<>>
       /\ audioBuffers_ = EmptyMap
       /\ controlValues_ = EmptyMap
       /\ eventBuffers_ = EmptyMap
       /\ isPrepared_ = FALSE

(***************************************************************************)
(* C10: after prepare on an acyclic connection graph the execution-order   *)
(* list is a valid topological order: for every connection, the node       *)
(* fromNodeId appears no later than the node toNodeId in the list.         *)
(* Stated for graphs in which every node is registered under its own id    *)
(* and the list holds exactly the registered nodes, each once.             *)
(***************************************************************************)
Edges == {<<connections_[i].fromNodeId, connections_[i].toNodeId>> :
            i \in 1..Len(connections_)}

\* a directed graph has a cycle exactly when some non-empty set of nodes
\* has, for each of its nodes, a predecessor in the set
HasCycle ==
  \E S \in SUBSET NodeIds \ {{}} : \A n \in S : \E m \in S : <<m, n>> \in Edges

RegisteredUnderOwnId ==
  /\ \A id \in DOMAIN nodes_ : objId[nodes_[id]] = id
  /\ Len(orderedNodes_) = Cardinality(DOMAIN nodes_)
  /\ \A id \in DOMAIN nodes_ : \E i \in 1..Len(orderedNodes_) : orderedNodes_[i] = nodes_[id]

PositionOf(id) == CHOOSE i \in 1..Len(orderedNodes_) : orderedNodes_[i] = nodes_[id]

C10_PrepareGivesTopologicalOrder ==
  (lastCall.op = "prepare" /\ ~HasCycle /\ RegisteredUnderOwnId)
    => \A i \in 1..Len(connections_) :
         PositionOf(connections_[i].fromNodeId) <= PositionOf(connections_[i].toNodeId)

(***************************************************************************)
(* C11: prepare on a graph whose connections contain a cycle (a            *)
(* self-connection included) rejects the graph in an observable way: it    *)
(* does not end in the same prepared state as for an acyclic graph, with   *)
(* every node silently scheduled or silently dropped.  The only things a   *)
(* caller of prepare can observe are its return value and the prepared     *)
(* state, so a rejection shows as a return other than void or as a graph   *)
(* left unprepared.                                                        *)
(***************************************************************************)
C11_PrepareRejectsCycle ==
  (lastCall.op = "prepare" /\ HasCycle)
    => \/ lastCall.ret # "void"
       \/ ~isPrepared_

(***************************************************************************)
(* C12: after prepare(sampleRate, blockSize) returns, for every registered *)
(* node the number of audio buffers held for it equals the number of its   *)
(* output ports of type Audio, and every one of those buffers has length   *)
(* exactly blockSize, whatever block size a previous prepare used; no      *)
(* buffer of the old length survives.                                      *)
(***************************************************************************)
\* the number of output ports of type Audio the object declares
AudioPortCount(o) ==
  Cardinality({i \in 1..Len(getOutputPorts[o]) : getOutputPorts[o][i] = "Audio"})

\* the audio buffers the graph holds for an id (none when the map has no entry)
BuffersHeld(id) == IF id \in DOMAIN audioBuffers_ THEN audioBuffers_[id] ELSE <<>>

C12_PrepareReallocatesBuffers ==
  lastCall.op = "prepare"
    => /\ \A id \in DOMAIN nodes_ :
            Len(BuffersHeld(id)) = AudioPortCount(nodes_[id])
       /\ \A id \in DOMAIN audioBuffers_ :
            \A k \in 1..Len(audioBuffers_[id]) :
              Len(audioBuffers_[id][k]) = lastCall.args[2]

\* prepare has returned with a block size of 2 on a graph holding a node with
\* audio buffers, while a node prepared earlier and since removed still
\* carries the block size 1 of the previous prepare
C12_Witness ==
  /\ lastCall.op = "prepare"
  /\ lastCall.args[2] = 2
  /\ \E id \in DOMAIN nodes_ : Len(BuffersHeld(id)) = 2
  /\ \E o \in Objs : o \notin Range(orderedNodes_) /\ nodeState[o].blockSize_ = 1

(***************************************************************************)
(* C13: createNode with a new id on a prepared graph registers the node,   *)
(* appends it to the end of the execution-order list, prepares it with the *)
(* graph's current sample rate and block size, and allocates for it one    *)
(* audio buffer of the current block size per Audio output port; on an     *)
(* unprepared graph it registers and appends the node but neither prepares *)
(* it nor allocates buffers.                                               *)
(***************************************************************************)
C13_CreateNodeOnPreparedGraph ==
  [][(lastCall'.op = "createNode" /\ ~Registered(lastCall'.args[1]))
       => LET id == lastCall'.args[1]
              node == lastCall'.args[2]
          IN  /\ lastCall'.ret = node
              /\ DOMAIN nodes_' = DOMAIN nodes_ \cup {id}
              /\ nodes_'[id] = node
              /\ \A k \in DOMAIN nodes_ : nodes_'[k] = nodes_[k]
              /\ orderedNodes_' = Append(orderedNodes_, node)
              /\ IF isPrepared_
                   THEN /\ nodeState'[node].sampleRate_ = sampleRate_
                        /\ nodeState'[node].blockSize_ = blockSize_
                        /\ nodeState'[node].currentFadeSample_ = 0
                        /\ nodeState'[node].fadeInSamples_ =
                             (nodeState[node].fadeInDurationMs_ * sampleRate_) \div 1000
                        /\ \A o \in Objs \ {node} : nodeState'[o] = nodeState[o]
                        /\ LET held == IF id \in DOMAIN audioBuffers_'
                                         THEN audioBuffers_'[id] ELSE <<>>
                           IN  /\ Len(held) = AudioPortCount(node)
                               /\ \A k \in 1..Len(held) : Len(held[k]) = blockSize_
                        /\ \A k \in DOMAIN audioBuffers_' \ {id} :
                             k \in DOMAIN audioBuffers_ /\ audioBuffers_'[k] = audioBuffers_[k]
                   ELSE UNCHANGED <<nodeState, audioBuffers_, controlValues_,
                                    eventBuffers_>>
              /\ UNCHANGED <<connections_, sampleRate_, blockSize_, isPrepared_>>]_vars

\* createNode has registered, on a prepared graph, a second node, which is
\* prepared with the graph's rate and holds two audio buffers
C13_Witness ==
  /\ lastCall.op = "createNode"
  /\ lastCall.ret # nullptr
  /\ isPrepared_
  /\ Len(orderedNodes_) = 2
  /\ nodeState[lastCall.args[2]].sampleRate_ = sampleRate_
  /\ Len(BuffersHeld(lastCall.args[1])) = 2

(***************************************************************************)
(* Vocabulary of the fade-in properties                                    *)
(***************************************************************************)
\* the node under applyFadeIn
Fade == nodeState[FadeNode]

\* Node::prepare has run and setFadeInDuration has not run since, so the
\* ramp in force is the one prepare computed
FreshlyPrepared == ramp.prepared /\ ~ramp.retimed

(***************************************************************************)
(* C14: for a node freshly prepared with a fade-in of N > 0 samples, over  *)
(* successive applyFadeIn calls of any block lengths the k-th sample       *)
(* processed since prepare (k counted from 0) is scaled by k/N when k < N  *)
(* and left unchanged when k >= N; resetFadeIn() makes the next processed  *)
(* sample count as k = 0 again.                                            *)
(***************************************************************************)
C14_FadeInRampShape ==
  [][(lastCall'.op = "applyFadeIn" /\ FreshlyPrepared /\ Fade.fadeInSamples_ > 0)
       => /\ Len(lastCall'.ret) = lastCall'.args[1]
          /\ \A i \in 1..Len(lastCall'.ret) :
               LET k == ramp.since + (i - 1)
                   N == Fade.fadeInSamples_
               IN  lastCall'.ret[i] = IF k < N THEN Scaled(k, N) ELSE Unscaled]_vars

\* an applyFadeIn call has continued a ramp of 3 samples that an earlier call
\* began, and has left the sample after the ramp unchanged
C14_Witness ==
  /\ lastCall.op = "applyFadeIn"
  /\ FreshlyPrepared
  /\ lastCall.ret = <<Scaled(1, 3), Scaled(2, 3), Unscaled>>

(***************************************************************************)
(* C15: the fade-in deactivates itself once the ramp completes: as soon as *)
(* the applyFadeIn calls have processed fadeInSamples samples in total,    *)
(* the active flag is false (also when the ramp ends exactly at the end of *)
(* a block); and once inactive, applyFadeIn changes neither the buffer nor *)
(* the ramp position.  Stated for a freshly prepared node with a ramp of   *)
(* at least one sample.                                                    *)
(***************************************************************************)
C15_FadeInDeactivatesAtRampEnd ==
  [][lastCall'.op = "applyFadeIn"
       => /\ (FreshlyPrepared /\ Fade.fadeInSamples_ > 0 /\
              ramp'.since >= Fade.fadeInSamples_)
               => ~nodeState'[FadeNode].fadeInActive_
          /\ ~Fade.fadeInActive_
               => /\ \A i \in 1..Len(lastCall'.ret) : lastCall'.ret[i] = Unscaled
                  /\ nodeState'[FadeNode] = Fade]_vars

(***************************************************************************)
(* C16: setFadeInDuration(0) disables the fade-in: once the duration is 0, *)
(* in any state including mid-ramp and without a following prepare or      *)
(* resetFadeIn, no applyFadeIn call scales any sample; prepare and         *)
(* resetFadeIn with duration 0 leave the fade-in inactive.                 *)
(***************************************************************************)
C16_ZeroDurationDisablesFadeIn ==
  [][/\ (lastCall'.op = "applyFadeIn" /\ Fade.fadeInDurationMs_ = 0)
          => \A i \in 1..Len(lastCall'.ret) : lastCall'.ret[i] = Unscaled
     /\ (lastCall'.op \in {"Node::prepare", "resetFadeIn"} /\ Fade.fadeInDurationMs_ = 0)
          => ~nodeState'[FadeNode].fadeInActive_]_vars

\* applyFadeIn has been handed samples after setFadeInDuration(0) stopped a
\* ramp at position 1, with no prepare or resetFadeIn in between
C16_Witness ==
  /\ lastCall.op = "applyFadeIn"
  /\ Len(lastCall.ret) > 0
  /\ Fade.fadeInDurationMs_ = 0
  /\ ramp.retimed
  /\ ramp.since > Fade.currentFadeSample_
  /\ Fade.currentFadeSample_ = 1

(***************************************************************************)
(* C17: Node::prepare(sampleRate, blockSize) is idempotent and restarts    *)
(* the ramp from any state: it sets the sample rate and block size,        *)
(* recomputes the fade-in sample count from the duration and the new       *)
(* sample rate, sets the ramp position to 0 and the active flag to         *)
(* (duration > 0); calling it twice with the same arguments leaves the     *)
(* node as calling it once.                                                *)
(***************************************************************************)
C17_NodePrepareRestartsRamp ==
  [][lastCall'.op = "Node::prepare"
       => LET sampleRate == lastCall'.args[1]
              blockSize == lastCall'.args[2]
              after == nodeState'[FadeNode]
          IN  /\ after.sampleRate_ = sampleRate
              /\ after.blockSize_ = blockSize
              /\ after.fadeInDurationMs_ = Fade.fadeInDurationMs_
              /\ after.fadeInSamples_ =
                   IF Fade.fadeInDurationMs_ >= 0
                     THEN (Fade.fadeInDurationMs_ * sampleRate) \div 1000
                     ELSE 0 - ((0 - Fade.fadeInDurationMs_ * sampleRate) \div 1000)
              /\ after.currentFadeSample_ = 0
              /\ after.fadeInActive_ = (Fade.fadeInDurationMs_ > 0)
              /\ NodePrepare(after, sampleRate, blockSize) = after]_vars

\* Node::prepare has restarted a ramp that stood at position 2 of 3, with a
\* sample rate other than the one the node had
C17_Witness ==
  /\ lastCall.op = "Node::prepare"
  /\ ramp.cut = 2
  /\ Fade.fadeInDurationMs_ = 3
  /\ Fade.sampleRate_ = 500
  /\ Fade.fadeInSamples_ = 1
  /\ Fade.currentFadeSample_ = 0
  /\ Fade.fadeInActive_

(***************************************************************************)
(* C18: setParam(name, value) on a node that has a parameter of that name  *)
(* returns true and a following getParam(name) returns value, every other  *)
(* parameter being unchanged; on an unknown name it returns false, changes *)
(* nothing and creates no parameter, and getParam(name) still reports      *)
(* not-found.                                                              *)
(***************************************************************************)
C18_SetParamThenGetParam ==
  [][/\ (lastCall'.op = "setParam"
       => LET name == lastCall'.args[1]
              value == lastCall'.args[2]
              named == {i \in 1..Len(params_) : params_[i].name = name}
          IN  IF named # {}
                THEN /\ lastCall'.ret = TRUE
                     /\ NodeGetParam(params_', name) = Found(value)
                     /\ Len(params_') = Len(params_)
                     /\ \A i \in 1..Len(params_) :
                          /\ params_'[i].name = params_[i].name
                          /\ (\E j \in named : j < i) => params_'[i] = params_[i]
                          /\ params_[i].name # name => params_'[i] = params_[i]
                ELSE /\ lastCall'.ret = FALSE
                     /\ params_' = params_
                     /\ NodeGetParam(params_', name) = NotFound)
     /\ ((lastCall.op = "setParam" /\ lastCall'.op = "getParam" /\
          lastCall'.args[1] = lastCall.args[1])
           => lastCall'.ret = IF lastCall.ret THEN Found(lastCall.args[2])
                                              ELSE NotFound)]_vars

\* setParam has set the second of two parameters to a value of another
\* variant alternative and returned true, the first being another parameter
C18_Witness ==
  /\ lastCall.op = "setParam"
  /\ lastCall.ret = TRUE
  /\ Len(params_) = 2
  /\ params_[1].name # lastCall.args[1]
  /\ params_[2] = Param(lastCall.args[1], lastCall.args[2])
  /\ params_[1].value.type # lastCall.args[2].type

(***************************************************************************)
(* C19: fan-in summation in process: the buffer a node receives for an     *)
(* input port in a block is, sample by sample, the sum of the output       *)
(* buffers of that block of the sources connected to the port (sources     *)
(* writing all 1 and all 2 give all 3); with one connection it is that     *)
(* source's buffer, with none it is silence.                               *)
(***************************************************************************)
C19_FanInSummation ==
  lastCall.op = "process"
    => \A id \in DOMAIN lastCall.ret :
         \A p \in DOMAIN lastCall.ret[id] :
           lastCall.ret[id][p] =
             Accumulate(audioBuffers_, connections_, Len(connections_), id, p,
                        lastCall.args[1])

(***************************************************************************)
(* C20: with the control-plane thread issuing createNode, removeNode,      *)
(* connect, disconnect, disconnectAll, clear and prepare while the         *)
(* processing thread runs process, process never observes a half-mutated   *)
(* graph: the graph a process call reads has no connection whose endpoint  *)
(* is missing from the registry, no node in the execution-order list that  *)
(* is not registered or not yet prepared and buffered, and a registry and  *)
(* an execution-order list holding the same nodes.                         *)
(***************************************************************************)
\* the node has been through node->prepare with the graph's settings and
\* through allocateBuffersForNode under the id
PreparedAndBuffered(id, o) ==
  /\ nodeState[o].graphManager_ = "this"
  /\ nodeState[o].sampleRate_ = sampleRate_
  /\ nodeState[o].blockSize_ = blockSize_
  /\ Len(BuffersHeld(id)) = AudioPortCount(o)
  /\ id \in DOMAIN controlValues_
  /\ id \in DOMAIN eventBuffers_

GraphWhole ==
  /\ \A i \in 1..Len(connections_) :
       Registered(connections_[i].fromNodeId) /\ Registered(connections_[i].toNodeId)
  /\ \A o \in Range(orderedNodes_) :
       \E id \in DOMAIN nodes_ : nodes_[id] = o /\ PreparedAndBuffered(id, o)
  /\ \A id \in DOMAIN nodes_ : nodes_[id] \in Range(orderedNodes_)

\* what a step must change to count as a call: anything but the return
\* value of the call
callStep == <<graph, nodeState, nodeSide, lastCall.op>>

C20_ProcessSeesWholeGraph ==
  [][lastCall'.op = "process" => GraphWhole]_callStep

(***************************************************************************)
(* C22: whenever the graph is prepared, every registered node was last     *)
(* prepared with the graph's current sample rate and block size:           *)
(* GraphManager::prepare calls prepare on every registered node, and this  *)
(* still holds after any later createNode, removeNode, connect or          *)
(* disconnect.                                                             *)
(***************************************************************************)
\* the node went through node->prepare with the graph's current settings
PreparedAsGraph(o) ==
  /\ nodeState[o].sampleRate_ = sampleRate_
  /\ nodeState[o].blockSize_ = blockSize_

C22_RegisteredNodesPreparedAsGraph ==
  isPrepared_ => \A id \in DOMAIN nodes_ : PreparedAsGraph(nodes_[id])

(***************************************************************************)
(* C23: connect with both node ids registered always appends exactly one   *)
(* connection at the end of the connection list and changes nothing else,  *)
(* without checking port names or types: it succeeds for port names the    *)
(* nodes do not declare, for a tuple that is already in the list (so the   *)
(* list can hold duplicates), and for fromId = toId.                       *)
(***************************************************************************)
C23_ConnectAppendsUnchecked ==
  [][(lastCall'.op = "connect" /\ Registered(lastCall'.args[1]) /\
      Registered(lastCall'.args[3]))
       => /\ connections_' = Append(connections_, CallTuple(lastCall'))
          /\ RestUnchanged]_vars

\* connect has appended a tuple that was already in the list, from a node to
\* itself, naming an output port the node does not declare
C23_Witness ==
  /\ lastCall.op = "connect"
  /\ Len(connections_) = 2
  /\ connections_[1] = connections_[2]
  /\ connections_[2] = CallTuple(lastCall)
  /\ connections_[2].fromNodeId = connections_[2].toNodeId
  /\ Registered(connections_[2].fromNodeId)
  /\ \A i \in 1..Len(outputPortNames[nodes_[connections_[2].fromNodeId]]) :
       outputPortNames[nodes_[connections_[2].fromNodeId]][i] # connections_[2].fromPortName

(***************************************************************************)
(* C24: after any sequence of createNode, removeNode, clear and prepare    *)
(* calls, the execution-order list contains exactly the nodes of the       *)
(* registry, each exactly once, also when a node object is registered      *)
(* under an id different from the id stored in the node or the same node   *)
(* object is registered under two ids: every node object stands in the     *)
(* list once per id it is registered under, so removeNode(id) has removed  *)
(* from the list exactly the node that was registered under id.            *)
(***************************************************************************)
C24_ListHoldsRegistryNodes ==
  \A o \in Objs :
    Cardinality({i \in 1..Len(orderedNodes_) : orderedNodes_[i] = o}) =
      Cardinality({id \in DOMAIN nodes_ : nodes_[id] = o})

(***************************************************************************)
(* C25: removeNode(id) changes nothing about other nodes: every other node *)
(* stays registered, the remaining nodes keep their relative order in the  *)
(* execution-order list, connections not touching id stay in the list in   *)
(* their original relative order, and the buffer-map entries of other      *)
(* nodes are untouched.                                                    *)
(***************************************************************************)
\* the map has the same entries before and after the step, id aside
SameBut(old, new, id) ==
  /\ DOMAIN new \ {id} = DOMAIN old \ {id}
  /\ \A k \in DOMAIN old \ {id} : new[k] = old[k]

\* the entries of the execution-order list that are not the object `gone`
Others(ordered, gone) == SelectSeq(ordered, LAMBDA o : o # gone)

\* the connections that do not touch id
NotTouching(conns, id) == SelectSeq(conns, LAMBDA c : ~Touches(c, id))

C25_RemoveNodeLeavesOthers ==
  [][(lastCall'.op = "removeNode" /\ Registered(lastCall'.args[1]))
       => LET id == lastCall'.args[1]
          IN  /\ SameBut(nodes_, nodes_', id)
              /\ Others(orderedNodes_', nodes_[id]) = Others(orderedNodes_, nodes_[id])
              /\ NotTouching(connections_', id) = NotTouching(connections_, id)
              /\ SameBut(audioBuffers_, audioBuffers_', id)
              /\ SameBut(controlValues_, controlValues_', id)
              /\ SameBut(eventBuffers_, eventBuffers_', id)]_vars

(***************************************************************************)
(* C29: under any sequence of prepare, setFadeInDuration, resetFadeIn and  *)
(* applyFadeIn calls (shortening or zeroing the duration mid-ramp          *)
(* included), a sample is scaled only while the ramp position is strictly  *)
(* below a positive fadeInSamples, so the applied gain is always in        *)
(* [0, 1) and never divides by zero, and the ramp position never decreases *)
(* except through prepare or resetFadeIn.                                  *)
(***************************************************************************)
C29_FadeInGainBelowOne ==
  [][/\ lastCall'.op = "applyFadeIn"
          => \A i \in 1..Len(lastCall'.ret) :
               lastCall'.ret[i].scaled
                 => /\ lastCall'.ret[i].den = Fade.fadeInSamples_
                    /\ lastCall'.ret[i].den > 0
                    /\ lastCall'.ret[i].num >= Fade.currentFadeSample_
                    /\ lastCall'.ret[i].num >= 0
                    /\ lastCall'.ret[i].num < lastCall'.ret[i].den
     /\ nodeState'[FadeNode].currentFadeSample_ < Fade.currentFadeSample_
          => lastCall'.op \in {"Node::prepare", "resetFadeIn"}]_vars

\* applyFadeIn has been handed samples after setFadeInDuration shortened a
\* ramp of 3 samples standing at position 2 to one sample, and has scaled
\* none of them
C29_Witness ==
  /\ lastCall.op = "applyFadeIn"
  /\ Len(lastCall.ret) > 0
  /\ \A i \in 1..Len(lastCall.ret) : lastCall.ret[i] = Unscaled
  /\ ramp.retimed
  /\ Fade.fadeInSamples_ = 1
  /\ Fade.currentFadeSample_ = 2
  /\ ~Fade.fadeInActive_

(***************************************************************************)
(* C26: every operation that reads or mutates the registry, the            *)
(* execution-order list, the connection list or the buffer maps does so    *)
(* holding graphMutex_: a thread about to run a statement that accesses    *)
(* that state holds the mutex, and no two threads are about to run such    *)
(* statements at the same time.                                            *)
(***************************************************************************)
C26_GraphAccessUnderMutex ==
  /\ \A t \in Threads : frames[t].line \in AccessLines => graphMutex_ = t
  /\ \A t, u \in Threads :
       (t # u /\ frames[t].line \in AccessLines) => frames[u].line \notin AccessLines

(***************************************************************************)
(* C27: when two threads call graph operations concurrently, statement by  *)
(* statement, then once both calls have returned (no thread is inside a    *)
(* call) every connection references two registered nodes, and the         *)
(* registry and the execution-order list hold the same nodes.              *)
(***************************************************************************)
C27_ConsistentOnceCallsReturned ==
  (\A t \in Threads : ~InCall(t)) =>
    /\ \A i \in 1..Len(connections_) :
         /\ Registered(connections_[i].fromNodeId)
         /\ Registered(connections_[i].toNodeId)
    /\ Range(orderedNodes_) = {nodes_[id] : id \in DOMAIN nodes_}
    /\ Len(orderedNodes_) = Cardinality(DOMAIN nodes_)

(***************************************************************************)
(* C28: no function asks for graphMutex_ while its own thread holds it     *)
(* (removeNode calls disconnectAll, the destructor calls clear, and        *)
(* neither callee takes the lock), and every return path releases the      *)
(* lock; so under fair scheduling every call of every thread eventually    *)
(* returns.  A thread that asked for the mutex it holds, or a lock left    *)
(* held by a call that returned, would leave some call in progress for     *)
(* ever.                                                                   *)
(***************************************************************************)
C28_EveryCallReturns == \A t \in Threads : InCall(t) ~> ~InCall(t)

\* a thread runs disconnectAll inside removeNode, holding the mutex, while
\* the other thread waits at the lock_guard of its own call
C28_Witness ==
  \E t, u \in Threads :
    /\ t # u
    /\ frames[t].fn = "removeNode"
    /\ At(t, 141)
    /\ graphMutex_ = t
    /\ InCall(u)
    /\ Acquires(frames[u].fn)
    /\ At(u, Entry(frames[u].fn))

(***************************************************************************)
(* C21: the processing thread never waits on a lock that the control-plane *)
(* thread holds for node-construction work: while a process call waits for *)
(* graphMutex_, the holder of the mutex is never about to run              *)
(* node->setGraphManager, node->prepare, allocateBuffersForNode, the loop  *)
(* of prepare over the nodes or allocateBuffers.                           *)
(***************************************************************************)
C21_ProcessNeverWaitsOnConstruction ==
  \A p, c \in Threads :
    ~ /\ frames[p].fn = "process"
      /\ At(p, Entry("process"))
      /\ graphMutex_ = c
      /\ frames[c].line \in ConstructionLines

====
